---------------------------- MODULE Spec2Model ----------------------------
(***************************************************************************)
(* State-machine model of src/meeting_summarizer.py: the credential check  *)
(* at import time, transcribe_audio (whole-file path and chunked path),    *)
(* load_special_terms, build_prompt, summarize_transcript and the output   *)
(* writing at the end of main.                                             *)
(*                                                                         *)
(* Text is modelled as a sequence of tokens (strings); a glossary line is  *)
(* a sequence of single characters.  External services (transcription,     *)
(* summarization, audio decode/export, the file system) answer             *)
(* nondeterministically with success or failure.                           *)
(***************************************************************************)
EXTENDS Integers, Sequences, FiniteSets, TLC

\* ------------------------------------------------------------------ bounds
MaxChunks == 3
MaxLatency == 2
MaxLines == 2
MaxLineLen == 2
MaxTerms == 2

\* ------------------------------------------------------- program constants
MAX_FILE_SIZE_MB == 25
AUDIO_CHUNK_LENGTH_MS == 30 * 60 * 1000
\* The separator literal of line 82, one token here.
SEPARATOR == "\n\n--- (next chunk) ---\n\n"

\* ---------------------------------------------------------- pure helpers
Min(a, b) == IF a <= b THEN a ELSE b

\* str.join: the pieces in order with sep between consecutive pieces.
RECURSIVE JoinWith(_, _)
JoinWith(sep, pieces) ==
    IF pieces = << >> THEN << >>
    ELSE IF Len(pieces) = 1 THEN Head(pieces)
    ELSE Head(pieces) \o sep \o JoinWith(sep, Tail(pieces))

\* Characters str.strip() removes from both ends.
Whitespace == {" ", "\n"}

RECURSIVE LStrip(_)
LStrip(s) ==
    IF s # << >> /\ Head(s) \in Whitespace THEN LStrip(Tail(s)) ELSE s

RECURSIVE RStrip(_)
RStrip(s) ==
    IF s # << >> /\ s[Len(s)] \in Whitespace
    THEN RStrip(SubSeq(s, 1, Len(s) - 1))
    ELSE s

Strip(s) == LStrip(RStrip(s))

StartsWith(s, c) == s # << >> /\ Head(s) = c

\* All sequences over S of length at most n.
SeqsUpTo(S, n) == UNION {[1..k -> S] : k \in 0..n}

\* ------------------------------------------------------- transcribe_audio
\* size_mb <= MAX_FILE_SIZE_MB with size_mb = getsize / (1024 * 1024): the
\* division by a power of two is exact in floating point, so the comparison
\* is the one on bytes.
\* Variant: strict comparison.
SizeWithinLimitStrict(sz) == sz < MAX_FILE_SIZE_MB * (1024 * 1024)

SizeWithinLimit(sz) == sz <= MAX_FILE_SIZE_MB * (1024 * 1024)

\* range(0, len(audio), AUDIO_CHUNK_LENGTH_MS): the start of chunk i, and
\* whether the range has an i-th element.
ChunkStart(i) == i * AUDIO_CHUNK_LENGTH_MS

HasChunk(i, dur) == ChunkStart(i) < dur

\* audio[start:start + AUDIO_CHUNK_LENGTH_MS]: the slice end is clamped to
\* the length of the audio.
\* Variant: slice end not clamped.
ChunkSliceUnclamped(i, dur) ==
    [index |-> i, start |-> ChunkStart(i),
     end |-> ChunkStart(i) + AUDIO_CHUNK_LENGTH_MS]

ChunkSlice(i, dur) ==
    [index |-> i, start |-> ChunkStart(i),
     end |-> Min(ChunkStart(i) + AUDIO_CHUNK_LENGTH_MS, dur)]

\* transcripts.append(text)
\* Variant: insert at the front.
AppendTranscriptFront(ts, t) == <<t>> \o ts

AppendTranscript(ts, t) == Append(ts, t)

\* "<separator>".join(transcripts); each transcript is one token.
JoinTranscripts(ts) ==
    JoinWith(<<SEPARATOR>>, [i \in 1..Len(ts) |-> <<ts[i]>>])

\* tempfile.TemporaryDirectory().__exit__: the directory and every file in
\* it are removed, whether the block ends normally or by an exception.
\* Variant: manual cleanup that an exception skips.
ReleaseTmpDirOnSuccessOnly(files, failed) == IF failed THEN files ELSE {}

ReleaseTmpDir(files, failed) == {}

\* ---------------------------------------------------- load_special_terms
\* A line as file iteration yields it: its characters and the line break.
RawLine(l) == l \o <<"\n">>

RECURSIVE KeepTerms(_)
KeepTerms(lines) ==
    IF lines = << >> THEN << >>
    ELSE LET ln == RawLine(Head(lines))
             rest == KeepTerms(Tail(lines))
         IN  IF Strip(ln) # << >> /\ ~StartsWith(ln, "#")
             THEN <<Strip(ln)>> \o rest
             ELSE rest

load_special_terms(g) == IF ~g.exists THEN << >> ELSE KeepTerms(g.lines)

\* ------------------------------------------------------------ build_prompt
\* The dict types: (core instruction, system message) per prompt type.
types ==
    [meeting |-> [core |-> "CORE_meeting", sys |-> "SYS_meeting"],
     presentation |-> [core |-> "CORE_presentation",
                       sys |-> "SYS_presentation"],
     general |-> [core |-> "CORE_general", sys |-> "SYS_general"]]

\* types.get(prompt_type, types['general'])
\* Variant: another default.
LookupTypeDefaultMeeting(pt) ==
    IF pt \in DOMAIN types THEN types[pt] ELSE types["meeting"]

LookupType(pt) ==
    IF pt \in DOMAIN types THEN types[pt] ELSE types["general"]

TermSection(ts) ==
    IF ts = << >> THEN << >>
    ELSE <<"TERMS_HEADER\n">>
         \o JoinWith(<<"\n">>, [i \in 1..Len(ts) |-> <<"- ">> \o ts[i]])

build_prompt(tr, ts, pt) ==
    [prompt |-> <<LookupType(pt).core, "\n">> \o TermSection(ts)
                \o <<"\nTRANSCRIPT:\n---\n">> \o tr
                \o <<"\n---\nSUMMARY (Markdown):">>,
     sys |-> LookupType(pt).sys]

\* ------------------------------------------------------------- sentinels
NoText == <<"<none>">>
NoPrompt == [prompt |-> NoText, sys |-> "<none>"]
NoGlossary == [exists |-> FALSE, lines |-> << >>]

\* -------------------------------------------------------------- inputs
Threshold == MAX_FILE_SIZE_MB * (1024 * 1024)
SizeCases == {0, Threshold - 1, Threshold, Threshold + 1}
DurationCases ==
    {k * AUDIO_CHUNK_LENGTH_MS + r :
        k \in 0..(MaxChunks - 1), r \in {0, 1, AUDIO_CHUNK_LENGTH_MS - 1}}
    \cup {MaxChunks * AUDIO_CHUNK_LENGTH_MS}
Texts == {"a", "b"}
Contents == {<<"s">>, <<" ", "s", "\n">>}
CliPromptTypes == {"general", "meeting", "presentation"}
AnyPromptTypes == CliPromptTypes \cup {"unknown_value", ""}
GlossaryCases ==
    {NoGlossary,
     [exists |-> TRUE, lines |-> << >>],
     [exists |-> TRUE, lines |-> <<<<"#", "c">>, << >>, <<"f">>, <<"g">>>>]}
Chars == {" ", "#", "a"}
GlossaryFiles ==
    {NoGlossary}
    \cup {[exists |-> TRUE, lines |-> ls] :
            ls \in SeqsUpTo(SeqsUpTo(Chars, MaxLineLen), MaxLines)}

VARIABLES
    pc,          \* position of the process
    hasKey,      \* OPENAI_API_KEY is set
    isFile,      \* os.path.isfile(path)
    size,        \* os.path.getsize(path)
    duration,    \* len(AudioSegment.from_file(path)) in ms
    prompt_type, \* args.prompt_type
    glossary,    \* SPECIAL_TERMS_FILE: exists, lines
    errLogged,   \* number of logger.error / logging.error messages
    exitCode,    \* -1 while running, then the process's exit code
    fatal,       \* the condition that ended the process, "none" otherwise
    transCalls,  \* transcription calls dispatched
    sumCalls,    \* summarization calls dispatched
    decodes,     \* AudioSegment.from_file calls
    exports,     \* chunk.export calls
    outstanding, \* service calls dispatched and not yet returned
    waited,      \* time the outstanding call has taken so far
    idx,         \* loop index of the chunk loop
    chunks,      \* chunks exported so far
    tmpFiles,    \* chunk files in the temporary directory
    dispatched,  \* chunk indices in the order their calls were dispatched
    callLog,     \* (chunk, text) in the order the chunk calls returned
    failedChunk, \* index of the chunk whose call failed, else -1
    transcripts, \* the list transcripts
    transcript,  \* value returned by transcribe_audio
    terms,       \* value returned by load_special_terms
    promptOut,   \* value returned by build_prompt
    summary,     \* value returned by summarize_transcript
    outDir,      \* "absent", "preexisting" or "created"
    outFile      \* content of the Markdown file, NoText when absent

vars == <<pc, hasKey, isFile, size, duration, prompt_type, glossary,
          errLogged, exitCode, fatal, transCalls, sumCalls, decodes,
          exports, outstanding, waited, idx, chunks, tmpFiles, dispatched, callLog,
          failedChunk, transcripts, transcript, terms, promptOut, summary,
          outDir, outFile>>

inputs == <<hasKey, isFile, size, duration, prompt_type, glossary>>
counters == <<transCalls, sumCalls, decodes, exports>>
chunkState == <<idx, chunks, tmpFiles, dispatched, callLog, failedChunk,
                transcripts>>
results == <<transcript, terms, promptOut, summary>>
output == <<outDir, outFile>>

InitWork ==
    /\ errLogged = 0
    /\ exitCode = -1
    /\ fatal = "none"
    /\ transCalls = 0
    /\ sumCalls = 0
    /\ decodes = 0
    /\ exports = 0
    /\ outstanding = {}
    /\ waited = 0
    /\ idx = 0
    /\ chunks = << >>
    /\ tmpFiles = {}
    /\ dispatched = << >>
    /\ callLog = << >>
    /\ failedChunk = -1
    /\ transcripts = << >>
    /\ promptOut = NoPrompt
    /\ summary = NoText
    /\ outDir = "absent"
    /\ outFile = NoText

Init ==
    /\ pc = "start"
    /\ hasKey \in BOOLEAN
    /\ isFile \in BOOLEAN
    /\ size \in SizeCases
    /\ duration \in DurationCases
    /\ prompt_type \in CliPromptTypes
    /\ glossary \in GlossaryCases
    /\ transcript = NoText
    /\ terms = << >>
    /\ InitWork

\* sys.exit(1), or an exception nobody catches: the process ends with 1.
Die(cause, logged) ==
    /\ pc' = "failed"
    /\ exitCode' = 1
    /\ fatal' = cause
    /\ errLogged' = errLogged + (IF logged THEN 1 ELSE 0)

\* -------------------------------------------------- module level, l.22-25
\* Variant: the error is logged without sys.exit(1).
CredentialMissingNoExit ==
    /\ pc = "start"
    /\ ~hasKey
    /\ errLogged' = errLogged + 1
    /\ pc' = "transcribe"
    /\ UNCHANGED <<inputs, exitCode, fatal, counters, outstanding, waited,
                   chunkState, results, output>>

CredentialMissing ==
    /\ pc = "start"
    /\ ~hasKey
    /\ Die("credential", TRUE)
    /\ UNCHANGED <<inputs, counters, outstanding, waited, chunkState,
                   results, output>>

CredentialPresent ==
    /\ pc = "start"
    /\ hasKey
    /\ pc' = "transcribe"
    /\ UNCHANGED <<inputs, errLogged, exitCode, fatal, counters, outstanding,
                   waited, chunkState, results, output>>

\* ------------------------------------------------ transcribe_audio, l.49-82
FileNotFound ==
    /\ pc = "transcribe"
    /\ ~isFile
    /\ Die("input", TRUE)
    /\ UNCHANGED <<inputs, counters, outstanding, waited, chunkState,
                   results, output>>

DispatchWhole ==
    /\ pc = "transcribe"
    /\ isFile
    /\ SizeWithinLimit(size)
    /\ transCalls' = transCalls + 1
    /\ outstanding' = outstanding \cup {<<"whole", 0>>}
    /\ waited' = 0
    /\ pc' = "await_whole"
    /\ UNCHANGED <<inputs, errLogged, exitCode, fatal, sumCalls, decodes, exports,
                   chunkState, results, output>>

\* The blocking call takes time; nothing else runs meanwhile.
Tick ==
    /\ pc \in {"await_whole", "await_chunk", "await_summary"}
    /\ waited < MaxLatency
    /\ waited' = waited + 1
    /\ UNCHANGED <<pc, inputs, errLogged, exitCode, fatal, counters, outstanding,
                   chunkState, results, output>>

ReturnWholeOk ==
    /\ pc = "await_whole"
    /\ \E t \in Texts : transcript' = <<t>>
    /\ outstanding' = outstanding \ {<<"whole", 0>>}
    /\ pc' = "load_terms"
    /\ UNCHANGED <<inputs, errLogged, exitCode, fatal, counters, waited,
                   chunkState, terms, promptOut, summary, output>>

\* The exception of the call is caught nowhere: no logger.error.
ReturnWholeFail ==
    /\ pc = "await_whole"
    /\ outstanding' = outstanding \ {<<"whole", 0>>}
    /\ Die("transcribe", FALSE)
    /\ UNCHANGED <<inputs, counters, waited, chunkState, results, output>>

DecodeOk ==
    /\ pc = "transcribe"
    /\ isFile
    /\ ~SizeWithinLimit(size)
    /\ decodes' = decodes + 1
    /\ idx' = 0
    /\ transcripts' = << >>
    /\ pc' = "chunking"
    /\ UNCHANGED <<inputs, errLogged, exitCode, fatal, transCalls, sumCalls,
                   exports, outstanding, waited, chunks, tmpFiles,
                   dispatched, callLog, failedChunk, results, output>>

\* CouldntDecodeError or any other exception: logged, then sys.exit(1).
DecodeFail ==
    /\ pc = "transcribe"
    /\ isFile
    /\ ~SizeWithinLimit(size)
    /\ decodes' = decodes + 1
    /\ Die("decode", TRUE)
    /\ UNCHANGED <<inputs, transCalls, sumCalls, exports, outstanding,
                   waited, chunkState, results, output>>

ExportChunkOk ==
    /\ pc = "chunking"
    /\ HasChunk(idx, duration)
    /\ exports' = exports + 1
    /\ chunks' = Append(chunks, ChunkSlice(idx, duration))
    /\ tmpFiles' = tmpFiles \cup {idx}
    /\ pc' = "exported"
    /\ UNCHANGED <<inputs, errLogged, exitCode, fatal, transCalls, sumCalls,
                   decodes, outstanding, waited, idx, dispatched, callLog,
                   failedChunk, transcripts, results, output>>

\* chunk.export raises: the with block releases the directory (a partly
\* written chunk file included) and the exception ends the process.
ExportChunkFail ==
    /\ pc = "chunking"
    /\ HasChunk(idx, duration)
    /\ exports' = exports + 1
    /\ tmpFiles' = ReleaseTmpDir(tmpFiles \cup {idx}, TRUE)
    /\ Die("export", FALSE)
    /\ UNCHANGED <<inputs, transCalls, sumCalls, decodes, outstanding,
                   waited, idx, chunks, dispatched, callLog, failedChunk,
                   transcripts, results, output>>

DispatchChunk ==
    /\ pc = "exported"
    /\ transCalls' = transCalls + 1
    /\ outstanding' = outstanding \cup {<<"chunk", idx>>}
    /\ dispatched' = Append(dispatched, idx)
    /\ waited' = 0
    /\ pc' = "await_chunk"
    /\ UNCHANGED <<inputs, errLogged, exitCode, fatal, sumCalls, decodes, exports,
                   idx, chunks, tmpFiles, callLog, failedChunk, transcripts,
                   results, output>>

ReturnChunkOk ==
    /\ pc = "await_chunk"
    /\ \E t \in Texts :
        /\ transcripts' = AppendTranscript(transcripts, t)
        /\ callLog' = Append(callLog, [chunk |-> idx, text |-> t])
    /\ outstanding' = outstanding \ {<<"chunk", idx>>}
    /\ idx' = idx + 1
    /\ pc' = "chunking"
    /\ UNCHANGED <<inputs, errLogged, exitCode, fatal, counters, waited, chunks,
                   tmpFiles, dispatched, failedChunk, results, output>>

\* Variant: the failed chunk is skipped and the loop goes on.
ReturnChunkFailSkipped ==
    /\ pc = "await_chunk"
    /\ outstanding' = outstanding \ {<<"chunk", idx>>}
    /\ failedChunk' = idx
    /\ idx' = idx + 1
    /\ pc' = "chunking"
    /\ UNCHANGED <<inputs, errLogged, exitCode, fatal, counters, waited, chunks,
                   tmpFiles, dispatched, callLog, transcripts, results,
                   output>>

ReturnChunkFail ==
    /\ pc = "await_chunk"
    /\ outstanding' = outstanding \ {<<"chunk", idx>>}
    /\ failedChunk' = idx
    /\ tmpFiles' = ReleaseTmpDir(tmpFiles, TRUE)
    /\ Die("transcribe", FALSE)
    /\ UNCHANGED <<inputs, counters, waited, idx, chunks, dispatched,
                   callLog, transcripts, results, output>>

FinishChunks ==
    /\ pc = "chunking"
    /\ ~HasChunk(idx, duration)
    /\ tmpFiles' = ReleaseTmpDir(tmpFiles, FALSE)
    /\ transcript' = JoinTranscripts(transcripts)
    /\ pc' = "load_terms"
    /\ UNCHANGED <<inputs, errLogged, exitCode, fatal, counters, outstanding,
                   waited, idx, chunks, dispatched, callLog, failedChunk,
                   transcripts, terms, promptOut, summary, output>>

\* ------------------------------------------------------------ main, l.156
LoadTerms ==
    /\ pc = "load_terms"
    /\ terms' = load_special_terms(glossary)
    /\ pc' = "summarize"
    /\ UNCHANGED <<inputs, errLogged, exitCode, fatal, counters, outstanding,
                   waited, chunkState, transcript, promptOut, summary,
                   output>>

\* ------------------------------------------- summarize_transcript, l.117-135
DispatchSummarize ==
    /\ pc = "summarize"
    /\ promptOut' = build_prompt(transcript, terms, prompt_type)
    /\ sumCalls' = sumCalls + 1
    /\ outstanding' = outstanding \cup {<<"summary", 0>>}
    /\ waited' = 0
    /\ pc' = "await_summary"
    /\ UNCHANGED <<inputs, errLogged, exitCode, fatal, transCalls, decodes,
                   exports, chunkState, transcript, terms, summary, output>>

\* resp.choices[0].message.content.strip()
ReturnSummaryOk ==
    /\ pc = "await_summary"
    /\ \E content \in Contents : summary' = Strip(content)
    /\ outstanding' = outstanding \ {<<"summary", 0>>}
    /\ pc' = "makedirs"
    /\ UNCHANGED <<inputs, errLogged, exitCode, fatal, counters, waited,
                   chunkState, transcript, terms, promptOut, output>>

\* except Exception: logger.error, sys.exit(1)
ReturnSummaryFail ==
    /\ pc = "await_summary"
    /\ outstanding' = outstanding \ {<<"summary", 0>>}
    /\ Die("summarize", TRUE)
    /\ UNCHANGED <<inputs, counters, waited, chunkState, results, output>>

\* ------------------------------------------------------- main, l.159-174
Heading == <<"# ", "SUMMARY_OF ", "base", "\n\n">>

\* os.makedirs(output_dir, exist_ok=True): the directory of the current
\* minute may exist already, with or without a file of the same name.
MakeDirsOk ==
    /\ pc = "makedirs"
    /\ \/ outDir' = "created" /\ outFile' = NoText
       \/ outDir' = "preexisting" /\ outFile' \in {NoText, <<"old">>}
    /\ pc' = "open"
    /\ UNCHANGED <<inputs, errLogged, exitCode, fatal, counters, outstanding,
                   waited, chunkState, results>>

MakeDirsFail ==
    /\ pc = "makedirs"
    /\ Die("write", FALSE)
    /\ UNCHANGED <<inputs, counters, outstanding, waited, chunkState,
                   results, output>>

\* open(md_path, 'w'): the file is created or truncated.
OpenOk ==
    /\ pc = "open"
    /\ outFile' = << >>
    /\ pc' = "write_heading"
    /\ UNCHANGED <<inputs, errLogged, exitCode, fatal, counters, outstanding,
                   waited, chunkState, results, outDir>>

OpenFail ==
    /\ pc = "open"
    /\ Die("write", FALSE)
    /\ UNCHANGED <<inputs, counters, outstanding, waited, chunkState,
                   results, output>>

WriteHeadingOk ==
    /\ pc = "write_heading"
    /\ outFile' = outFile \o Heading
    /\ pc' = "write_summary"
    /\ UNCHANGED <<inputs, errLogged, exitCode, fatal, counters, outstanding,
                   waited, chunkState, results, outDir>>

WriteHeadingFail ==
    /\ pc = "write_heading"
    /\ Die("write", FALSE)
    /\ UNCHANGED <<inputs, counters, outstanding, waited, chunkState,
                   results, output>>

\* f.write(summary), the file is closed, logger.info, exit code 0.
WriteSummaryOk ==
    /\ pc = "write_summary"
    /\ outFile' = outFile \o summary
    /\ pc' = "done"
    /\ exitCode' = 0
    /\ UNCHANGED fatal
    /\ UNCHANGED <<inputs, errLogged, counters, outstanding, waited,
                   chunkState, results, outDir>>

\* f.write(summary) raises: the with block closes the file, which keeps
\* the heading written before.
WriteSummaryFail ==
    /\ pc = "write_summary"
    /\ Die("write", FALSE)
    /\ UNCHANGED <<inputs, counters, outstanding, waited, chunkState,
                   results, output>>

Next ==
    \/ CredentialMissing
    \/ CredentialPresent
    \/ FileNotFound
    \/ DispatchWhole
    \/ Tick
    \/ ReturnWholeOk
    \/ ReturnWholeFail
    \/ DecodeOk
    \/ DecodeFail
    \/ ExportChunkOk
    \/ ExportChunkFail
    \/ DispatchChunk
    \/ ReturnChunkOk
    \/ ReturnChunkFail
    \/ FinishChunks
    \/ LoadTerms
    \/ DispatchSummarize
    \/ ReturnSummaryOk
    \/ ReturnSummaryFail
    \/ MakeDirsOk
    \/ MakeDirsFail
    \/ OpenOk
    \/ OpenFail
    \/ WriteHeadingOk
    \/ WriteHeadingFail
    \/ WriteSummaryOk
    \/ WriteSummaryFail

Spec == Init /\ [][Next]_vars

\* ------------------------------------- load_special_terms on any glossary
InitTerms ==
    /\ pc = "load_terms"
    /\ hasKey = TRUE
    /\ isFile = TRUE
    /\ size = 0
    /\ duration = 0
    /\ prompt_type = "general"
    /\ glossary \in GlossaryFiles
    /\ transcript = <<"a">>
    /\ terms = << >>
    /\ InitWork

SpecTerms == InitTerms /\ [][LoadTerms]_vars

\* ------------------------------------------- build_prompt on any arguments
TranscriptCases == {<< >>, <<"a">>, JoinTranscripts(<<"a", "b">>)}
TermCases == SeqsUpTo({<<"f">>, <<"#", "g">>}, MaxTerms)

InitPrompt ==
    /\ pc = "summarize"
    /\ hasKey = TRUE
    /\ isFile = TRUE
    /\ size = 0
    /\ duration = 0
    /\ prompt_type \in AnyPromptTypes
    /\ glossary = NoGlossary
    /\ transcript \in TranscriptCases
    /\ terms \in TermCases
    /\ InitWork

SpecPrompt == InitPrompt /\ [][DispatchSummarize]_vars

\* ================================================================ claims
CeilDiv(a, b) == (a + b - 1) \div b

SepCount(tr) == Cardinality({i \in 1..Len(tr) : tr[i] = SEPARATOR})

\* transcribe_audio has returned a transcript built by the chunk loop.
ChunkedDone == decodes = 1 /\ transcript # NoText

\* C1: an existing file of at most 25 * 1024 * 1024 bytes gets exactly one
\* transcription call, on the whole file, and is never decoded and never
\* chunked or exported; decoding and chunking happen only for a size
\* strictly greater than that.
C1_SmallFileSingleCall ==
    /\ (decodes > 0 \/ exports > 0 \/ chunks # << >> \/ tmpFiles # {})
          => size > 25 * 1024 * 1024
    /\ (hasKey /\ isFile /\ size <= 25 * 1024 * 1024)
          => /\ transCalls <= 1
             /\ dispatched = << >>
             /\ pc \notin {"start", "transcribe"} => transCalls = 1
             /\ pc = "await_whole" => outstanding = {<<"whole", 0>>}

C1_Witness ==
    /\ size = 25 * 1024 * 1024
    /\ pc = "done"
    /\ transCalls = 1
    /\ decodes = 0

\* C2: every chunk i created covers [i*L, min((i+1)*L, D)), is non-empty and
\* at most L long; chunks are contiguous from 0 in index order; and when the
\* chunk loop has finished there are exactly ceil(D / L) of them, ending at D.
C2_ChunksPartitionAudio ==
    /\ \A i \in 1..Len(chunks) :
          /\ chunks[i].index = i - 1
          /\ chunks[i].start = (i - 1) * 1800000
          /\ chunks[i].end = Min(i * 1800000, duration)
          /\ chunks[i].start < chunks[i].end
          /\ chunks[i].end - chunks[i].start <= 1800000
          /\ chunks[i].start = (IF i = 1 THEN 0 ELSE chunks[i - 1].end)
    /\ ChunkedDone =>
          /\ Len(chunks) = CeilDiv(duration, 1800000)
          /\ Len(chunks) > 0 => chunks[Len(chunks)].end = duration
          /\ Len(chunks) = 0 => duration = 0

C2_Witness ==
    /\ ChunkedDone
    /\ duration = 2 * 1800000 + 1
    /\ Len(chunks) = 3
    /\ chunks[3].end - chunks[3].start = 1

\* The order part of C3: calls are dispatched in index order, one at a time,
\* each only after the previous one has returned.
SequentialDispatch ==
    /\ Cardinality(outstanding) <= 1
    /\ \A i \in 1..Len(dispatched) : dispatched[i] = i - 1
    /\ \A i \in 1..Len(callLog) : callLog[i].chunk = i - 1
    /\ Len(callLog) <= Len(dispatched)
    /\ Len(dispatched) <= Len(callLog) + 1
    /\ pc = "await_chunk" =>
          /\ outstanding = {<<"chunk", idx>>}
          /\ Len(dispatched) = idx + 1
          /\ Len(callLog) = idx
    /\ pc \in {"chunking", "exported"} =>
          /\ outstanding = {}
          /\ Len(dispatched) = idx
          /\ Len(callLog) = idx

\* The transcript is the returned texts in index order with the separator
\* between consecutive texts.
TextsInOrder ==
    LET n == Len(callLog)
    IN  /\ n = Len(chunks)
        /\ Len(transcript) = (IF n = 0 THEN 0 ELSE 2 * n - 1)
        /\ \A j \in 1..Len(transcript) :
              IF j % 2 = 1
              THEN transcript[j] = callLog[(j + 1) \div 2].text
              ELSE transcript[j] = SEPARATOR

\* C3 as amended: chunk calls are dispatched strictly in index order and one
\* at a time, whatever the latency; the transcript is the per-chunk texts in
\* index order joined by the separator, n >= 1 chunks giving n - 1
\* separators and zero chunks giving the empty transcript.
C3_SequentialOrderedJoin ==
    /\ SequentialDispatch
    /\ ChunkedDone =>
          /\ TextsInOrder
          /\ SepCount(transcript) =
                (IF Len(chunks) = 0 THEN 0 ELSE Len(chunks) - 1)

C3_Witness ==
    /\ ChunkedDone
    /\ Len(chunks) = 3
    /\ callLog[1].text = "b"
    /\ callLog[2].text = "a"
    /\ waited = MaxLatency
    /\ pc = "done"

\* C3 as stated: as above, with n chunks giving exactly n - 1 separators.
C3_AsStated ==
    /\ SequentialDispatch
    /\ ChunkedDone =>
          /\ TextsInOrder
          /\ SepCount(transcript) = Len(chunks) - 1

\* C4: outside the chunking phase no chunk file exists, on every way out of
\* it (all chunks done, export failed, transcription failed); inside it the
\* directory holds exactly the chunks exported so far.
C4_TmpDirReleased ==
    /\ pc \notin {"chunking", "exported", "await_chunk"} => tmpFiles = {}
    /\ pc = "chunking" => tmpFiles = 0..(idx - 1)
    /\ pc \in {"exported", "await_chunk"} => tmpFiles = 0..idx

C4_Witness ==
    /\ fatal = "transcribe"
    /\ failedChunk = 1
    /\ Len(chunks) = 2
    /\ tmpFiles = {}

\* C5: a run either completes and leaves the Markdown file holding the
\* heading followed by the summary, or fails having created no directory
\* and written (or truncated) no file.
C5_NoPartialOutput ==
    /\ pc = "done" => outDir # "absent" /\ outFile = Heading \o summary
    /\ pc = "failed" => outDir # "created" /\ outFile \in {NoText, <<"old">>}

\* C6: without the credential, or without the input file, the process ends
\* with exit code 1 and no transcription call, summarization call, decode
\* or export has happened.
C6_ValidationFirst ==
    /\ (~hasKey \/ ~isFile) =>
          /\ transCalls = 0
          /\ sumCalls = 0
          /\ decodes = 0
          /\ exports = 0
          /\ outstanding = {}
          /\ outDir = "absent"
    /\ (~hasKey /\ pc # "start") =>
          pc = "failed" /\ exitCode = 1 /\ fatal = "credential"
    /\ (hasKey /\ ~isFile /\ pc \notin {"start", "transcribe"}) =>
          pc = "failed" /\ exitCode = 1 /\ fatal = "input"

C6_Witness ==
    /\ ~hasKey
    /\ isFile
    /\ size > 25 * 1024 * 1024
    /\ pc = "failed"
    /\ exitCode = 1

\* C7: each of the listed fatal conditions ends the process only after an
\* error message was logged, and no call is attempted twice.
C7_FatalLoggedNoRetry ==
    /\ fatal \in {"credential", "input", "decode", "transcribe", "summarize"}
          => errLogged >= 1
    /\ sumCalls <= 1
    /\ decodes <= 1
    /\ transCalls <= (IF decodes = 0 THEN 1 ELSE Len(chunks))
    /\ \A i, j \in 1..Len(dispatched) :
          dispatched[i] = dispatched[j] => i = j

\* The terms the glossary should give: the trimmed lines that are neither
\* blank nor, once trimmed, comment lines.
RECURSIVE TrimmedNonComment(_)
TrimmedNonComment(lines) ==
    IF lines = << >> THEN << >>
    ELSE LET t == Strip(RawLine(Head(lines)))
         IN  (IF t # << >> /\ ~StartsWith(t, "#") THEN <<t>> ELSE << >>)
             \o TrimmedNonComment(Tail(lines))

\* C8: load_special_terms returns the trimmed, non-blank, non-comment lines
\* in file order (duplicates kept), each non-empty and not starting with
\* '#', and the empty list when the file does not exist.
C8_TermsTrimmedNonComment ==
    pc = "summarize" =>
        /\ ~glossary.exists => terms = << >>
        /\ glossary.exists => terms = TrimmedNonComment(glossary.lines)
        /\ \A i \in 1..Len(terms) :
              terms[i] # << >> /\ ~StartsWith(terms[i], "#")

\* C9: build_prompt with a prompt type outside {general, meeting,
\* presentation} returns the pair it returns for general on the same
\* transcript and terms; a known type gets its own pair.
C9_UnknownTypeIsGeneral ==
    pc = "await_summary" =>
        /\ promptOut.prompt # NoText
        /\ prompt_type \notin {"general", "meeting", "presentation"} =>
              /\ promptOut = build_prompt(transcript, terms, "general")
              /\ promptOut.prompt[1] = "CORE_general"
              /\ promptOut.sys = "SYS_general"
        /\ prompt_type = "meeting" =>
              promptOut.prompt[1] = "CORE_meeting"
        /\ prompt_type = "presentation" =>
              promptOut.sys = "SYS_presentation"

C9_Witness ==
    /\ pc = "await_summary"
    /\ prompt_type = "unknown_value"
    /\ terms # << >>
    /\ promptOut.sys = "SYS_general"

\* C10: export and transcription alternate chunk by chunk; when the call
\* for chunk k fails, exactly k + 1 chunks were exported and k + 1 calls
\* dispatched, nothing beyond chunk k is exported or transcribed, no
\* transcript is returned and no summarization call is made.
C10_InterleavedAbortOnFailure ==
    /\ pc = "chunking" =>
          exports = idx /\ transCalls = idx /\ Len(transcripts) = idx
    /\ pc = "exported" =>
          exports = idx + 1 /\ transCalls = idx /\ Len(transcripts) = idx
    /\ pc = "await_chunk" =>
          exports = idx + 1 /\ transCalls = idx + 1
    /\ failedChunk >= 0 =>
          /\ pc = "failed"
          /\ exports = failedChunk + 1
          /\ Len(chunks) = failedChunk + 1
          /\ transCalls = failedChunk + 1
          /\ Len(dispatched) = failedChunk + 1
          /\ \A i \in 1..Len(chunks) : chunks[i].index <= failedChunk
          /\ Len(callLog) = failedChunk
          /\ transcript = NoText
          /\ sumCalls = 0
          /\ outFile = NoText

C10_Witness ==
    /\ failedChunk = 1
    /\ HasChunk(2, duration)
    /\ exports = 2
    /\ transCalls = 2
    /\ pc = "failed"

=============================================================================
